---- MODULE Spec2Model ----
(***************************************************************************)
(* The short-code mapping store of the URL shortener (url-shortener        *)
(* main.go, reproduced in url-shortener/DOCUMENTATION.md): the in-memory   *)
(* map urls guarded by the RWMutex mu, its JSON snapshot urls.json, and    *)
(* the handlers that read and write it.                                    *)
(*                                                                         *)
(* A process is either the HTTP server (several handler goroutines) or a   *)
(* CLI run (one call of shorten, then exit).  Each process has its own     *)
(* urls and mu; the files are shared by name.                              *)
(*                                                                         *)
(* The Discord bot (messageCreate, which calls the same shorten) is a      *)
(* third kind of process, and the task manager of cli-tasks/main.go, with  *)
(* its own file tasks.json, has its own specification.                     *)
(***************************************************************************)
EXTENDS Integers, Sequences, FiniteSets, TLC

\* ------------------------------------------------------------------ bounds
\* Handler goroutines of the server.
NThreads == 2
\* Calls (shorten or redirect) started over a run, all processes together.
MaxOps == 2
\* Times the server process is interrupted and started again.
MaxCrashes == 1
\* taskcli: tasks in the list, and the largest ID given.
MaxTasks == 2
MaxTaskID == 3
\* Length of a generated code.  The program's codeLength is 6 over 62
\* letters; the model keeps the construction and scales the key space down.
codeLength == 2

\* --------------------------------------------------------------- constants
dbFile == "urls.json"
tempInPlace == dbFile
\* temp := dbFile + ".tmp"
temp == dbFile \o ".tmp"
baseURL == <<"http://localhost:8080/">>
\* The letters generateCode draws from (62 in the program).
letters == {"a", "b"}

FileNames == {dbFile, temp}

\* taskcli: const dataFile = "tasks.json"
dataFile == "tasks.json"
\* saveTasks: tmpFile := dataFile + ".tmp"
tmpFile == dataFile \o ".tmp"
TaskFileNames == {dataFile, tmpFile}

Server == "server"
Cli == "cli"
Procs == {Server, Cli}
ServerThreads == 1..NThreads
CliThread == NThreads + 1
Threads == ServerThreads \cup {CliThread}
\* The Discord bot: a process of its own, with the goroutine of its handler.
Bot == "bot"
BotThread == NThreads + 2
AllProcs == Procs \cup {Bot}
AllThreads == Threads \cup {BotThread}
Proc(t) == IF t = CliThread THEN Cli ELSE IF t = BotThread THEN Bot ELSE Server

\* ----------------------------------------------------------------- strings
\* A target is a Go string: any bytes.  BadBytes stands for a string that is
\* not valid UTF-8 (such as "\xff").  The -url argument of a CLI run is
\* raw bytes and can be one; the url of an HTTP request body comes out of a
\* JSON decoder and is always valid UTF-8.
BadBytes == "<ff>"
ReplacementChar == "<U+FFFD>"
ValidTargets == {"http://a", "http://b"}
Targets == ValidTargets \cup {BadBytes}

\* encoding/json writes a string coerced to valid UTF-8: invalid bytes are
\* replaced by U+FFFD.
ToValidUTF8(s) == IF s = BadBytes THEN ReplacementChar ELSE s

\* ------------------------------------------------------------------- maps
EmptyMap == [c \in {} |-> ""]
MapPutAlone(m, k, v) == [x \in {k} |-> v]
\* m[k] = v
MapPut(m, k, v) == [x \in DOMAIN m \cup {k} |-> IF x = k THEN v ELSE m[x]]

\* All strings of length n over letters, as sequences of letters.
RECURSIVE Strings(_)
Strings(n) ==
    IF n = 0 THEN {<< >>}
    ELSE {<<l>> \o s : l \in letters, s \in Strings(n - 1)}

\* What generateCode can return.
generateCode == Strings(codeLength)

\* ------------------------------------------------------------------ files
\* A file is absent (NoFile) or holds text.  Text is modelled by what a JSON
\* decoder makes of it: ok = FALSE is text that is not one JSON value (empty
\* or cut short); otherwise obj is the object's members, each a JSON value
\* with its type.
NoFile == [exists |-> FALSE, ok |-> FALSE, obj |-> EmptyMap]
Truncated == [exists |-> TRUE, ok |-> FALSE, obj |-> EmptyMap]
JString(s) == [type |-> "string", s |-> s]
JNumber == [type |-> "number", s |-> "1"]
Object(o) == [exists |-> TRUE, ok |-> TRUE, obj |-> o]

\* encoder.Encode(urls): a JSON object of strings.
Encode(m) == Object([c \in DOMAIN m |-> JString(ToValidUTF8(m[c]))])

\* Decoder.Decode(&urls): a syntax error leaves the map alone; otherwise
\* every member is stored, a member that is not a string as "" and with an
\* UnmarshalTypeError returned at the end.
Decode(f, m) ==
    IF ~f.ok THEN [urls |-> m, err |-> "SyntaxError"]
    ELSE [urls |-> [c \in DOMAIN m \cup DOMAIN f.obj |->
                      IF c \in DOMAIN f.obj
                      THEN (IF f.obj[c].type = "string" THEN f.obj[c].s ELSE "")
                      ELSE m[c]],
          err |-> IF \E c \in DOMAIN f.obj : f.obj[c].type # "string"
                  THEN "UnmarshalTypeError" ELSE "nil"]

\* os.Open(name): ENOENT for an absent file, else the fault the environment
\* injects ("nil" for none).
Open(fs, name, fault) == IF ~fs[name].exists THEN "ENOENT" ELSE fault

IsNotExistNever(e) == FALSE
\* os.IsNotExist(err)
IsNotExist(e) == e = "ENOENT"

\* load(): the map and the error it leaves, starting from map m.
load(fs, m, fault) ==
    LET e == Open(fs, dbFile, fault) IN
    IF IsNotExist(e) THEN [urls |-> m, err |-> "nil"]
    ELSE IF e # "nil" THEN [urls |-> m, err |-> e]
    ELSE Decode(fs[dbFile], m)

RenameSwapped(fs, from, to) ==
    IF from = to THEN fs
    ELSE [fs EXCEPT ![from] = fs[to], ![to] = NoFile]

\* os.Rename(from, to): atomic replace.
Rename(fs, from, to) ==
    IF from = to THEN fs
    ELSE [fs EXCEPT ![to] = fs[from], ![from] = NoFile]

existsNever(m, c) == FALSE
\* _, exists := urls[code]
exists(m, c) == c \in DOMAIN m

\* The snapshots a process can find at its first start: none, one written by
\* an earlier run, one cut short, one edited so that a member is no string,
\* one whose key was not made by generateCode (edited, or written with
\* another codeLength).
CodeA == [i \in 1..codeLength |-> "a"]
CodeB == [i \in 1..codeLength |-> IF i = codeLength THEN "b" ELSE "a"]
ForeignKey == <<"-">>
InitSnapshots ==
    { NoFile,
      Encode(CodeA :> "http://a"),
      Truncated,
      Object((CodeA :> JString("http://a")) @@ (CodeB :> JNumber)),
      Encode(ForeignKey :> "http://a") }

\* ------------------------------------------------------------------ state
VARIABLES
    files,      \* file name -> content
    up,         \* process -> init() has run and the process is alive
    urls,       \* process -> its in-memory map
    mu,         \* process -> its RWMutex: [w: writers holding, r: readers holding]
    pc,         \* thread -> where it is
    u,          \* thread -> shorten's argument
    code,       \* thread -> shorten's code / redirectHandler's code
    err,        \* thread -> the error shorten is about to return
    resp,       \* thread -> redirectHandler's response
    before,     \* thread -> urls when shorten took the lock (history)
    issued,     \* process -> <<code, target>> of its successful shorten calls (history)
    loadLog,    \* process -> what its last load() read and left (history)
    saveLog,    \* the save in progress or interrupted: the snapshot before it and what it writes (history)
    rlog,       \* thread -> the successful calls for its code when the running redirect was called (history)
    cliRan,     \* the CLI run has started
    ops,        \* calls started
    crashes,    \* interruptions of the server
    bot,        \* the bot's handling of its last message: the message, its shorten calls, what shorten returned, what it sent
    taskFiles,  \* taskcli: file name -> content
    taskOut     \* taskcli: what the last command did

taskVars == <<taskFiles, taskOut>>

vars == <<files, up, urls, mu, pc, u, code, err, resp, before, issued, loadLog,
          saveLog, rlog, cliRan, ops, crashes, bot, taskVars>>

Unlocked == [w |-> {}, r |-> {}]
NoResp == [status |-> 0, dest |-> ""]
NoLoad == [from |-> NoFile, err |-> "none", urls |-> EmptyMap]
NoSave == [active |-> FALSE, interrupted |-> FALSE, owner |-> Server,
           pre |-> NoFile, post |-> NoFile]
NoRlog == [issuedAtCall |-> {}]
NoRet == [short |-> << >>, err |-> "none"]
NoMessage == [fromSelf |-> FALSE, Content |-> << >>]
NoBot == [handled |-> FALSE, m |-> NoMessage, calls |-> 0, ret |-> NoRet, sent |-> << >>]
NoTaskFile == [exists |-> FALSE, ok |-> FALSE, tasks |-> << >>]
NoOut == [id |-> 0, exit |-> 0]

\* The url-shortener before any process has started, with one of the given
\* snapshots in the directory.
StoreInit(snapshots) ==
    /\ files \in {[n \in FileNames |-> IF n = dbFile THEN s ELSE NoFile] : s \in snapshots}
    /\ up = [p \in AllProcs |-> FALSE]
    /\ urls = [p \in AllProcs |-> EmptyMap]
    /\ mu = [p \in AllProcs |-> Unlocked]
    /\ pc = [t \in AllThreads |-> "idle"]
    /\ u = [t \in AllThreads |-> ""]
    /\ code = [t \in AllThreads |-> << >>]
    /\ err = [t \in AllThreads |-> "nil"]
    /\ resp = [t \in AllThreads |-> NoResp]
    /\ before = [t \in AllThreads |-> EmptyMap]
    /\ issued = [p \in AllProcs |-> {}]
    /\ loadLog = [p \in AllProcs |-> NoLoad]
    /\ saveLog = NoSave
    /\ rlog = [t \in AllThreads |-> NoRlog]
    /\ cliRan = FALSE
    /\ ops = 0
    /\ crashes = 0
    /\ bot = NoBot

\* No task file, no taskcli command run.
TasksInit ==
    /\ taskFiles = [n \in TaskFileNames |-> NoTaskFile]
    /\ taskOut = NoOut

InitWith(snapshots) == StoreInit(snapshots) /\ TasksInit

Init == InitWith(InitSnapshots)

\* ---------------------------------------------------------------- startup
\* init(): urls = make(map); load(); a load error is logged and the process
\* goes on with whatever load left in urls.
init(p) ==
    /\ ~up[p]
    /\ p = Cli => ~cliRan
    /\ \E fault \in {"nil", "EACCES"} :
         LET r == load(files, EmptyMap, fault) IN
         /\ urls' = [urls EXCEPT ![p] = r.urls]
         /\ loadLog' = [loadLog EXCEPT ![p] =
                           [from |-> files[dbFile], err |-> r.err, urls |-> r.urls]]
    /\ up' = [up EXCEPT ![p] = TRUE]
    /\ cliRan' = (cliRan \/ p = Cli)
    /\ UNCHANGED <<files, mu, pc, u, code, err, resp, before, issued, saveLog,
                   rlog, ops, crashes,
                   bot, taskVars>>

\* A process starts while no other process runs.
initAlone(p) ==
    /\ \A q \in Procs : ~up[q]
    /\ init(p)

\* ---------------------------------------------------------------- shorten
\* shorten(target) is called on goroutine t.
CallShorten(t, target) ==
    /\ up[Proc(t)]
    /\ pc[t] = "idle"
    /\ ops < MaxOps
    /\ pc' = [pc EXCEPT ![t] = "sLock"]
    /\ u' = [u EXCEPT ![t] = target]
    /\ ops' = ops + 1
    /\ UNCHANGED <<files, up, urls, mu, code, err, resp, before, issued, loadLog,
                   saveLog, rlog, cliRan, crashes,
                   bot, taskVars>>

\* The request bodies of the model: one that is no JSON, and the objects
\* whose url member is a target or is empty or missing (req.URL = "").
NoJSON == [ok |-> FALSE, url |-> ""]
Body(url) == [ok |-> TRUE, url |-> url]
Bodies == {NoJSON} \cup {Body(url) : url \in {"http://a", ""}}
\* The requests to /shorten of the model: a GET, and a POST of each body.
Requests ==
    {[Method |-> "GET", Body |-> NoJSON]} \cup
    {[Method |-> "POST", Body |-> b] : b \in Bodies}

\* shortenHandler: a request that is no POST gets 405, a body that does not
\* decode gets 400, and neither calls shorten; any other request calls
\* shorten(req.URL).
shortenHandler(t, r) ==
    /\ Proc(t) = Server
    /\ IF r.Method # "POST" \/ ~r.Body.ok
       THEN /\ up[Server]
            /\ pc[t] = "idle"
            /\ UNCHANGED vars
       ELSE CallShorten(t, r.Body.url)

\* runCLI with -url=longURL: if *longURL != "" it calls shorten(*longURL);
\* otherwise it prints the usage and the process ends.
runCLI(t, longURL) ==
    /\ t = CliThread
    /\ IF longURL # ""
       THEN CallShorten(t, longURL)
       ELSE /\ up[Cli]
            /\ pc[t] = "idle"
            /\ up' = [up EXCEPT ![Cli] = FALSE]
            /\ UNCHANGED <<files, urls, mu, pc, u, code, err, resp, before, issued,
                           loadLog, saveLog, rlog, cliRan, ops, crashes,
                           bot, taskVars>>

CanLockOverReaders(m) == m.w = {}
\* mu.Lock() can return: no writer and no reader holds mu.
CanLock(m) == m.w = {} /\ m.r = {}

\* mu.Lock()
Lock(t) ==
    /\ pc[t] = "sLock"
    /\ CanLock(mu[Proc(t)])
    /\ mu' = [mu EXCEPT ![Proc(t)].w = {t}]
    /\ pc' = [pc EXCEPT ![t] = "sGen"]
    /\ before' = [before EXCEPT ![t] = urls[Proc(t)]]
    /\ UNCHANGED <<files, up, urls, u, code, err, resp, issued, loadLog, saveLog,
                   rlog, cliRan, ops, crashes,
                   bot, taskVars>>

\* A loop that gives up on a code already in urls: shorten returns an error.
RetryGivesUp(t) ==
    /\ pc[t] = "sGen"
    /\ \E c \in generateCode : exists(urls[Proc(t)], c)
    /\ err' = [err EXCEPT ![t] = "EEXIST"]
    /\ pc' = [pc EXCEPT ![t] = "sUnlock"]
    /\ UNCHANGED <<files, up, urls, mu, u, code, resp, before, issued, loadLog,
                   saveLog, rlog, cliRan, ops, crashes, bot, taskVars>>

\* One turn of the loop: a code already in urls is dropped and the loop
\* goes round again.
Retry(t) ==
    /\ pc[t] = "sGen"
    /\ \E c \in generateCode : exists(urls[Proc(t)], c)
    /\ UNCHANGED vars

\* One turn of the loop with a fresh code: urls[code] = u, and save() starts.
Insert(t) ==
    /\ pc[t] = "sGen"
    /\ \E c \in generateCode :
         /\ ~exists(urls[Proc(t)], c)
         /\ urls' = [urls EXCEPT ![Proc(t)] = MapPut(@, c, u[t])]
         /\ code' = [code EXCEPT ![t] = c]
    /\ pc' = [pc EXCEPT ![t] = "sCreate"]
    /\ saveLog' = [active |-> TRUE, interrupted |-> FALSE, owner |-> Proc(t),
                   pre |-> files[dbFile], post |-> Encode(urls'[Proc(t)])]
    /\ UNCHANGED <<files, up, mu, u, err, resp, before, issued, loadLog, rlog,
                   cliRan, ops, crashes,
                   bot, taskVars>>

\* save(): os.Create(temp); on error save returns it.
saveCreate(t) ==
    /\ pc[t] = "sCreate"
    /\ \E fault \in {"nil", "EACCES"} :
         IF fault # "nil"
         THEN /\ err' = [err EXCEPT ![t] = fault]
              /\ pc' = [pc EXCEPT ![t] = "sUnlock"]
              /\ UNCHANGED files
         ELSE /\ files' = [files EXCEPT ![temp] = Truncated]
              /\ pc' = [pc EXCEPT ![t] = "sEncode"]
              /\ UNCHANGED err
    /\ UNCHANGED <<up, urls, mu, u, code, resp, before, issued, loadLog, saveLog,
                   rlog, cliRan, ops, crashes,
                   bot, taskVars>>

\* save(): encoder.Encode(urls) into the temporary file, file.Close(); a
\* write error leaves the file cut short and save returns the error.
saveEncode(t) ==
    /\ pc[t] = "sEncode"
    /\ \E fault \in {"nil", "ENOSPC"} :
         IF fault # "nil"
         THEN /\ err' = [err EXCEPT ![t] = fault]
              /\ pc' = [pc EXCEPT ![t] = "sUnlock"]
              /\ files' = [files EXCEPT ![temp] = Truncated]
         ELSE /\ files' = [files EXCEPT ![temp] = Encode(urls[Proc(t)])]
              /\ pc' = [pc EXCEPT ![t] = "sRename"]
              /\ UNCHANGED err
    /\ UNCHANGED <<up, urls, mu, u, code, resp, before, issued, loadLog, saveLog,
                   rlog, cliRan, ops, crashes,
                   bot, taskVars>>

\* save(): return os.Rename(temp, dbFile)
saveRename(t) ==
    /\ pc[t] = "sRename"
    /\ \E fault \in {"nil", "EACCES"} :
         IF fault # "nil"
         THEN /\ err' = [err EXCEPT ![t] = fault]
              /\ UNCHANGED files
         ELSE /\ files' = Rename(files, temp, dbFile)
              /\ UNCHANGED err
    /\ pc' = [pc EXCEPT ![t] = "sUnlock"]
    /\ UNCHANGED <<up, urls, mu, u, code, resp, before, issued, loadLog, saveLog,
                   rlog, cliRan, ops, crashes,
                   bot, taskVars>>

UnlockSkipped(m) == m
\* mu.Unlock()
UnlockOf(m) == [m EXCEPT !.w = {}]

shortenResultBare(t) ==
    IF err[t] # "nil" THEN [short |-> << >>, err |-> err[t]]
    ELSE [short |-> code[t], err |-> "nil"]
\* What shorten returns: "", err or baseURL + code, nil.
shortenResult(t) ==
    IF err[t] # "nil" THEN [short |-> << >>, err |-> err[t]]
    ELSE [short |-> baseURL \o code[t], err |-> "nil"]

\* shorten returns: the deferred mu.Unlock() runs, on the error path as on
\* the successful one.  A CLI run prints (or log.Fatal) and the process ends.
Unlock(t) ==
    /\ pc[t] = "sUnlock"
    /\ mu' = [mu EXCEPT ![Proc(t)] = UnlockOf(@)]
    /\ issued' = [issued EXCEPT ![Proc(t)] =
                     IF shortenResult(t).err = "nil"
                     THEN @ \cup {<<code[t], u[t]>>} ELSE @]
    /\ up' = [up EXCEPT ![Cli] = IF t = CliThread THEN FALSE ELSE @]
    /\ pc' = [pc EXCEPT ![t] = IF t = BotThread THEN "bSend" ELSE "idle"]
    /\ bot' = IF t = BotThread THEN [bot EXCEPT !.ret = shortenResult(t)] ELSE bot
    /\ u' = [u EXCEPT ![t] = ""]
    /\ code' = [code EXCEPT ![t] = << >>]
    /\ err' = [err EXCEPT ![t] = "nil"]
    /\ before' = [before EXCEPT ![t] = EmptyMap]
    /\ saveLog' = NoSave
    /\ UNCHANGED <<files, urls, resp, loadLog, rlog, cliRan, ops, crashes,
                   taskVars>>

\* ---------------------------------------------------------------- redirect
\* The request paths of the model: "/" and a code.
Paths == {<<"/">> \o c : c \in generateCode}

PathWhole(path) == path
\* r.URL.Path[1:]
PathCode(path) == Tail(path)

\* The lookup of redirectHandler in map m: 302 to the target, or 404.
Lookup(m, c) ==
    IF c \in DOMAIN m THEN [status |-> 302, dest |-> m[c]]
    ELSE [status |-> 404, dest |-> ""]

\* The server calls redirectHandler for a request: code := r.URL.Path[1:]
CallRedirect(t, path) ==
    /\ Proc(t) = Server
    /\ up[Server]
    /\ pc[t] = "idle"
    /\ ops < MaxOps
    /\ pc' = [pc EXCEPT ![t] = "rRLock"]
    /\ code' = [code EXCEPT ![t] = PathCode(path)]
    /\ rlog' = [rlog EXCEPT ![t] =
                   [issuedAtCall |-> {e \in issued[Server] : e[1] = PathCode(path)}]]
    /\ ops' = ops + 1
    /\ UNCHANGED <<files, up, urls, mu, u, err, resp, before, issued, loadLog,
                   saveLog, cliRan, crashes,
                   bot, taskVars>>

CanRLockAlone(m) == m.w = {} /\ m.r = {}
\* mu.RLock() can return: no writer holds mu.
CanRLock(m) == m.w = {}

\* mu.RLock()
RLock(t) ==
    /\ pc[t] = "rRLock"
    /\ CanRLock(mu[Proc(t)])
    /\ mu' = [mu EXCEPT ![Proc(t)].r = @ \cup {t}]
    /\ pc' = [pc EXCEPT ![t] = "rLookup"]
    /\ UNCHANGED <<files, up, urls, u, code, err, resp, before, issued, loadLog,
                   saveLog, rlog, cliRan, ops, crashes,
                   bot, taskVars>>

\* dest, ok := urls[code]; http.Redirect or http.NotFound
Respond(t) ==
    /\ pc[t] = "rLookup"
    /\ resp' = [resp EXCEPT ![t] = Lookup(urls[Proc(t)], code[t])]
    /\ pc' = [pc EXCEPT ![t] = "rRUnlock"]
    /\ UNCHANGED <<files, up, urls, mu, u, code, err, before, issued, loadLog,
                   saveLog, rlog, cliRan, ops, crashes,
                   bot, taskVars>>

\* redirectHandler returns: the deferred mu.RUnlock() runs.
RUnlock(t) ==
    /\ pc[t] = "rRUnlock"
    /\ mu' = [mu EXCEPT ![Proc(t)].r = @ \ {t}]
    /\ pc' = [pc EXCEPT ![t] = "idle"]
    /\ code' = [code EXCEPT ![t] = << >>]
    /\ resp' = [resp EXCEPT ![t] = NoResp]
    /\ rlog' = [rlog EXCEPT ![t] = NoRlog]
    /\ UNCHANGED <<files, up, urls, u, err, before, issued, loadLog, saveLog,
                   cliRan, ops, crashes,
                   bot, taskVars>>

\* ------------------------------------------------------------ interruption
\* The server process is killed: its memory, goroutines and lock are gone,
\* the files stay as they are.  init() runs again when it is started.
Crash ==
    /\ up[Server]
    /\ crashes < MaxCrashes
    /\ crashes' = crashes + 1
    /\ up' = [up EXCEPT ![Server] = FALSE]
    /\ urls' = [urls EXCEPT ![Server] = EmptyMap]
    /\ mu' = [mu EXCEPT ![Server] = Unlocked]
    /\ pc' = [t \in AllThreads |-> IF Proc(t) = Server THEN "idle" ELSE pc[t]]
    /\ u' = [t \in AllThreads |-> IF Proc(t) = Server THEN "" ELSE u[t]]
    /\ code' = [t \in AllThreads |-> IF Proc(t) = Server THEN << >> ELSE code[t]]
    /\ err' = [t \in AllThreads |-> IF Proc(t) = Server THEN "nil" ELSE err[t]]
    /\ resp' = [t \in AllThreads |-> IF Proc(t) = Server THEN NoResp ELSE resp[t]]
    /\ before' = [t \in AllThreads |-> IF Proc(t) = Server THEN EmptyMap ELSE before[t]]
    /\ rlog' = [t \in AllThreads |-> IF Proc(t) = Server THEN NoRlog ELSE rlog[t]]
    /\ issued' = [issued EXCEPT ![Server] = {}]
    /\ saveLog' = IF saveLog.active /\ saveLog.owner = Server
                  THEN [saveLog EXCEPT !.interrupted = TRUE] ELSE saveLog
    /\ UNCHANGED <<files, loadLog, cliRan, ops, bot, taskVars>>

\* -------------------------------------------------------------------- bot
\* A message content is a sequence of pieces: words and single spaces.
\* const prefix = "!shorten "
prefix == <<"!shorten", " ">>

\* strings.HasPrefix
HasPrefix(s, p) == Len(s) >= Len(p) /\ SubSeq(s, 1, Len(p)) = p
\* strings.TrimPrefix
TrimPrefix(s, p) == IF HasPrefix(s, p) THEN SubSeq(s, Len(p) + 1, Len(s)) ELSE s

RECURSIVE TrimLeft(_)
TrimLeft(s) == IF s # << >> /\ Head(s) = " " THEN TrimLeft(Tail(s)) ELSE s
RECURSIVE TrimRight(_)
TrimRight(s) ==
    IF s # << >> /\ s[Len(s)] = " " THEN TrimRight(SubSeq(s, 1, Len(s) - 1)) ELSE s
TrimSpaceNot(s) == s
\* strings.TrimSpace
TrimSpace(s) == TrimRight(TrimLeft(s))

\* The string the pieces make up.
RECURSIVE Join(_)
Join(s) == IF s = << >> THEN "" ELSE Head(s) \o Join(Tail(s))

\* The messages the bot sends (without their backquotes and emoji).
Usage == <<"Please provide a URL to shorten. Usage: !shorten <URL>">>
Failed == <<"Failed to shorten URL.">>
\* fmt.Sprintf("Short URL: %s", shortURL)
ShortMsg(shortURL) == <<"Short URL: ">> \o shortURL

\* The messages of the model: chatter, the bare command, the command with
\* blanks only, with a URL, with a URL among blanks, the command glued to
\* its URL; and a command the bot wrote itself.
Contents ==
    { <<"hello">>,
      <<"!shorten">>,
      <<"!shorten", " ">>,
      <<"!shorten", " ", " ">>,
      <<"!shorten", " ", "http://a">>,
      <<"!shorten", " ", " ", "http://a", " ">>,
      <<"!shorten", "http://a">> }
Messages ==
    {[fromSelf |-> FALSE, Content |-> c] : c \in Contents} \cup
    {[fromSelf |-> TRUE, Content |-> <<"!shorten", " ", "http://a">>]}

\* messageCreate up to its call of shorten: a message of the bot itself
\* and a message without the prefix are dropped, a command without a URL is
\* answered with the usage, any other command calls shorten(longURL).
messageCreate(t, m) ==
    /\ t = BotThread
    /\ up[Bot]
    /\ pc[t] = "idle"
    /\ ops < MaxOps
    /\ ops' = ops + 1
    /\ LET longURL == Join(TrimSpace(TrimPrefix(m.Content, prefix)))
           seen == [NoBot EXCEPT !.handled = TRUE, !.m = m]
       IN  IF m.fromSelf \/ ~HasPrefix(m.Content, prefix)
           THEN /\ bot' = seen
                /\ UNCHANGED <<pc, u>>
           ELSE IF longURL = ""
           THEN /\ bot' = [seen EXCEPT !.sent = <<Usage>>]
                /\ UNCHANGED <<pc, u>>
           ELSE /\ bot' = [seen EXCEPT !.calls = 1]
                /\ pc' = [pc EXCEPT ![t] = "sLock"]
                /\ u' = [u EXCEPT ![t] = longURL]
    /\ UNCHANGED <<files, up, urls, mu, code, err, resp, before, issued, loadLog,
                   saveLog, rlog, cliRan, crashes, taskVars>>

\* messageCreate after shorten has returned: the failure message on an
\* error, the short URL otherwise; then the handler returns.
sendResult(t) ==
    /\ t = BotThread
    /\ pc[t] = "bSend"
    /\ bot' = [bot EXCEPT !.sent =
                  Append(@, IF bot.ret.err # "nil" THEN Failed
                            ELSE ShortMsg(bot.ret.short))]
    /\ pc' = [pc EXCEPT ![t] = "idle"]
    /\ UNCHANGED <<files, up, urls, mu, u, code, err, resp, before, issued,
                   loadLog, saveLog, rlog, cliRan, ops, crashes, taskVars>>

\* The server and a CLI run that overlap share temp.  The overlapping runs
\* explored keep their saves apart (no save starts while the other process
\* is inside one): every such run is a run of the program.
InsertApart(t) ==
    /\ saveLog.active => saveLog.owner = Proc(t)
    /\ Insert(t)

\* ----------------------------------------------------------- specifications
\* The steps of a goroutine inside shorten or redirectHandler.
Step(t) ==
    \/ Lock(t)
    \/ Retry(t)
    \/ saveCreate(t)
    \/ saveEncode(t)
    \/ saveRename(t)
    \/ Unlock(t)
    \/ RLock(t)
    \/ Respond(t)
    \/ RUnlock(t)

Call(t) ==
    \/ \E r \in Requests : shortenHandler(t, r)
    \/ \E path \in Paths : CallRedirect(t, path)
    \/ \E longURL \in Targets \cup {""} : runCLI(t, longURL)

\* One process at a time: the server, interrupted and restarted, and a CLI
\* run before it starts or while it is down.
Next ==
    \/ \E p \in Procs : initAlone(p)
    \/ Crash
    \/ \E t \in Threads : Call(t) \/ Step(t) \/ Insert(t)

Spec == Init /\ [][Next]_vars

\* A running server and one CLI run (urls -url=...) in the same directory.
NextShared ==
    \/ \E p \in Procs : init(p)
    \/ \E t \in Threads : Call(t) \/ Step(t) \/ InsertApart(t)

SpecShared == Init /\ [][NextShared]_vars

\* The steps of the bot's goroutine inside shorten and after it.
BotStep(t) ==
    \/ Lock(t)
    \/ Retry(t)
    \/ saveCreate(t)
    \/ saveEncode(t)
    \/ saveRename(t)
    \/ Unlock(t)
    \/ sendResult(t)

\* The bot alone in its directory, handling one message after the other.
NextBot ==
    \/ init(Bot)
    \/ \E m \in Messages : messageCreate(BotThread, m)
    \/ BotStep(BotThread)
    \/ Insert(BotThread)

SpecBot == Init /\ [][NextBot]_vars

\* The snapshots of a key space that is about to run out: every code but
\* one is taken, or every code is.
AllBut(c) == Encode([x \in generateCode \ {c} |-> "http://a"])
FullSnapshots == {AllBut(CodeB), Encode([x \in generateCode |-> "http://a"])}

InitLive == InitWith({NoFile} \cup FullSnapshots)

\* The processes run without interruption.
NextLive ==
    \/ \E p \in Procs : initAlone(p)
    \/ \E t \in Threads : Call(t) \/ Step(t) \/ Insert(t)

\* The scheduler runs every goroutine that can take a step, and the random
\* generator does not avoid a free code for ever.
Fairness ==
    \A t \in Threads : WF_vars(Step(t)) /\ WF_vars(Insert(t))

SpecLive == InitLive /\ [][NextLive]_vars /\ Fairness

\* ----------------------------------------------------------------- taskcli
\* The task manager (cli-tasks/main.go): every command is one run of the
\* program, which loads tasks.json, changes the list and saves it.
storeVars == <<files, up, urls, mu, pc, u, code, err, resp, before, issued,
               loadLog, saveLog, rlog, cliRan, ops, crashes, bot>>

\* The flag values of the model: those of add, and the new ones of edit.
\* "" is a flag that was not given.
Titles == {"write"}
NewTitles == {"", "read"}
Dates == {"2024-01-01"}
NewDates == {"", "2024-01-02"}
Dues == {""}
NewDues == {"", "2024-02-01"}
Priorities == {"", "high"}
NewPriorities == {"", "high"}
\* The flags of one run of edit: one flag given, or all four (editCmd
\* refuses a run with none).
EditFlags == {f \in NewTitles \X NewDates \X NewDues \X NewPriorities :
                Cardinality({k \in 1..4 : f[k] # ""}) \in {1, 4}}
IDs == 1..MaxTaskID

TaskList(list) == [exists |-> TRUE, ok |-> TRUE, tasks |-> list]
\* A tasks.json that json.Unmarshal rejects, or a file cut short.
BadTaskFile == [exists |-> TRUE, ok |-> FALSE, tasks |-> << >>]

\* loadTasks: no file gives the empty list; a file that does not decode
\* gives an error.
loadTasks(tf) ==
    IF ~tf[dataFile].exists THEN [tasks |-> << >>, err |-> "nil"]
    ELSE IF ~tf[dataFile].ok THEN [tasks |-> << >>, err |-> "SyntaxError"]
    ELSE [tasks |-> tf[dataFile].tasks, err |-> "nil"]

\* saveTasks: ioutil.WriteFile(tmpFile), then os.Rename(tmpFile, dataFile).
\* A failed write leaves the temporary file cut short.
SaveFaults == {"nil", "ENOSPC"}
saveTasks(tf, list, fault) ==
    IF fault = "ENOSPC"
    THEN [files |-> [tf EXCEPT ![tmpFile] = BadTaskFile], err |-> fault]
    ELSE LET written == [tf EXCEPT ![tmpFile] = TaskList(list)] IN
         [files |-> [written EXCEPT ![dataFile] = written[tmpFile],
                                    ![tmpFile] = NoTaskFile],
          err |-> "nil"]

nextIDByCount(list) == Len(list) + 1
\* nextID: the largest ID of the list, 0 for none, plus one.
RECURSIVE MaxOf(_, _)
MaxOf(list, max) ==
    IF list = << >> THEN max
    ELSE MaxOf(Tail(list), IF Head(list).ID > max THEN Head(list).ID ELSE max)
nextID(list) == MaxOf(list, 0) + 1

\* The index of the first task with the given ID, 0 when there is none.
RECURSIVE Find(_, _, _)
Find(list, id, i) ==
    IF i > Len(list) THEN 0
    ELSE IF list[i].ID = id THEN i ELSE Find(list, id, i + 1)

\* What a command did: the ID addTask gave (0 otherwise), the exit status.
Out(cmd, id, exit) == [id |-> id, exit |-> exit]

\* The outcome of one run of a command is the files it leaves and what it
\* reports.  A command that has loaded the list and made newList of it:
\* saveTasks, and exit status 1 when it fails.  id is the ID addTask has
\* given.
SaveAndExit(tf, cmd, id, newList, fault) ==
    LET r == saveTasks(tf, newList, fault) IN
    [files |-> r.files, out |-> Out(cmd, id, IF r.err = "nil" THEN 0 ELSE 1)]

\* A command whose loadTasks failed: message and os.Exit(1).
LoadFailed(tf, cmd) == [files |-> tf, out |-> Out(cmd, 0, 1)]

\* A command that found no task with the ID: message and return.
NotFound(tf, cmd) == [files |-> tf, out |-> Out(cmd, 0, 0)]

addTask(title, created, due, priority) ==
    LET l == loadTasks(taskFiles) IN
    IF l.err # "nil"
    THEN LET r == LoadFailed(taskFiles, "add") IN
         /\ taskFiles' = r.files
         /\ taskOut' = r.out
         /\ UNCHANGED storeVars
    ELSE LET t == [ID |-> nextID(l.tasks), Title |-> title, Done |-> FALSE,
                   InProgress |-> FALSE, Created |-> created, Due |-> due,
                   Priority |-> priority]
         IN  /\ Len(l.tasks) < MaxTasks
             /\ t.ID <= MaxTaskID
             /\ \E fault \in SaveFaults :
                    LET r == SaveAndExit(taskFiles, "add", t.ID,
                                         Append(l.tasks, t), fault) IN
                    /\ taskFiles' = r.files
                    /\ taskOut' = r.out
             /\ UNCHANGED storeVars

\* completeTask on the files tf, the save meeting the given fault.
RunComplete(tf, fault, id) ==
    LET l == loadTasks(tf)
        i == Find(l.tasks, id, 1)
    IN  IF l.err # "nil" THEN LoadFailed(tf, "done")
        ELSE IF i = 0 THEN NotFound(tf, "done")
        ELSE SaveAndExit(tf, "done", 0,
                 IF l.tasks[i].Done THEN l.tasks
                 ELSE [l.tasks EXCEPT ![i].Done = TRUE], fault)

completeTask(id) ==
    \E fault \in SaveFaults :
        LET r == RunComplete(taskFiles, fault, id) IN
        /\ taskFiles' = r.files
        /\ taskOut' = r.out
        /\ UNCHANGED storeVars

\* The test of startTask that takes any task, done or started, as startable.
StartableAlways(t) == TRUE

\* startTask starts a task that is neither done nor in progress.
Startable(t) == ~t.Done /\ ~t.InProgress

RunStart(tf, fault, id) ==
    LET l == loadTasks(tf)
        i == Find(l.tasks, id, 1)
    IN  IF l.err # "nil" THEN LoadFailed(tf, "start")
        ELSE IF i = 0 THEN NotFound(tf, "start")
        ELSE SaveAndExit(tf, "start", 0,
                 IF Startable(l.tasks[i])
                 THEN [l.tasks EXCEPT ![i].InProgress = TRUE]
                 ELSE l.tasks, fault)

startTask(id) ==
    \E fault \in SaveFaults :
        LET r == RunStart(taskFiles, fault, id) IN
        /\ taskFiles' = r.files
        /\ taskOut' = r.out
        /\ UNCHANGED storeVars

RunDelete(tf, fault, id) ==
    LET l == loadTasks(tf)
        keep == {i \in 1..Len(l.tasks) : l.tasks[i].ID # id}
        newTasks == SelectSeq(l.tasks, LAMBDA t : t.ID # id)
    IN  IF l.err # "nil" THEN LoadFailed(tf, "del")
        ELSE IF Cardinality(keep) = Len(l.tasks) THEN NotFound(tf, "del")
        ELSE SaveAndExit(tf, "del", 0, newTasks, fault)

deleteTask(id) ==
    \E fault \in SaveFaults :
        LET r == RunDelete(taskFiles, fault, id) IN
        /\ taskFiles' = r.files
        /\ taskOut' = r.out
        /\ UNCHANGED storeVars

\* clearTasks saves the empty list without loading.
clearTasks ==
    \E fault \in SaveFaults :
        LET r == SaveAndExit(taskFiles, "clear", 0, << >>, fault) IN
        /\ taskFiles' = r.files
        /\ taskOut' = r.out
        /\ UNCHANGED storeVars

\* The assignment that overwrites every field, given or not.
editFieldsAll(t, newTitle, newCreated, newDue, newPriority) ==
    [t EXCEPT !.Title = newTitle, !.Created = newCreated,
              !.Due = newDue, !.Priority = newPriority]

\* The four assignments of editTask, each under its test for a given flag.
editFields(t, newTitle, newCreated, newDue, newPriority) ==
    [t EXCEPT !.Title = IF newTitle # "" THEN newTitle ELSE @,
              !.Created = IF newCreated # "" THEN newCreated ELSE @,
              !.Due = IF newDue # "" THEN newDue ELSE @,
              !.Priority = IF newPriority # "" THEN newPriority ELSE @]

RunEdit(tf, fault, id, newTitle, newCreated, newDue, newPriority) ==
    LET l == loadTasks(tf)
        i == Find(l.tasks, id, 1)
    IN  IF l.err # "nil" THEN LoadFailed(tf, "edit")
        ELSE IF i = 0 THEN NotFound(tf, "edit")
        ELSE LET e == editFields(l.tasks[i], newTitle, newCreated,
                                 newDue, newPriority)
             IN  SaveAndExit(tf, "edit", 0, [l.tasks EXCEPT ![i] = e], fault)

editTask(id, newTitle, newCreated, newDue, newPriority) ==
    \E fault \in SaveFaults :
        LET r == RunEdit(taskFiles, fault, id, newTitle, newCreated,
                         newDue, newPriority) IN
        /\ taskFiles' = r.files
        /\ taskOut' = r.out
        /\ UNCHANGED storeVars

\* The directory before the first command: no tasks.json, or one that does
\* not decode.
InitTasks ==
    /\ StoreInit({NoFile})
    /\ taskFiles \in {[n \in TaskFileNames |-> IF n = dataFile THEN f ELSE NoTaskFile] :
                        f \in {NoTaskFile, BadTaskFile}}
    /\ taskOut = NoOut

NextTasks ==
    \/ \E title \in Titles, created \in Dates, due \in Dues, priority \in Priorities :
            addTask(title, created, due, priority)
    \/ \E id \in IDs, f \in EditFlags : editTask(id, f[1], f[2], f[3], f[4])
    \/ \E id \in IDs : completeTask(id)
    \/ \E id \in IDs : startTask(id)
    \/ \E id \in IDs : deleteTask(id)
    \/ clearTasks

SpecTasks == InitTasks /\ [][NextTasks]_vars

\* ================================================================== claims
InSave(t) == pc[t] \in {"sCreate", "sEncode", "sRename", "sUnlock"}
Succeeding(t) == pc[t] = "sUnlock" /\ err[t] = "nil"
Failing(t) == pc[t] = "sUnlock" /\ err[t] # "nil"
Responding(t) == pc[t] = "rRUnlock"
\* What a fresh process that loads the snapshot holds.
FreshLoad == load(files, EmptyMap, "nil").urls
\* The snapshot records code c with target tg as encoding/json writes it.
Recorded(c, tg) ==
    /\ files[dbFile].ok
    /\ c \in DOMAIN files[dbFile].obj
    /\ files[dbFile].obj[c] = JString(ToValidUTF8(tg))

\* C1: when save fails inside shorten, the call returns an error and the
\* in-memory map is what it was before the call, so the code of the failed
\* call does not resolve.
C1_RollbackOnFailedSave ==
    \A t \in Threads :
        Failing(t) =>
            /\ urls[Proc(t)] = before[t]
            /\ Lookup(urls[Proc(t)], code[t]).status = 404

C3_Uniqueness ==
    /\ \A t \in Threads :
          InSave(t) =>
            /\ code[t] \notin DOMAIN before[t]
            /\ urls[Proc(t)] = MapPut(before[t], code[t], u[t])
            /\ \A c \in DOMAIN before[t] : urls[Proc(t)][c] = before[t][c]
            /\ \A e \in issued[Proc(t)] : e[1] # code[t]
    /\ \A p \in Procs : \A e1, e2 \in issued[p] : e1[1] = e2[1] => e1 = e2

\* A call has inserted into a map that held a loaded entry and an entry of
\* an earlier call.
C3_Witness ==
    \E t \in Threads :
        /\ InSave(t)
        /\ loadLog[Proc(t)].urls # EmptyMap
        /\ issued[Proc(t)] # {}

\* C4: while a save runs, and after the process was interrupted inside it,
\* the snapshot file is the file from before the save or the complete new
\* one; save never leaves it cut short; and the restarted process holds what
\* loading the old file gives or what loading the new one gives.
C4_AtomicPersistence ==
    LET s == saveLog IN
    s.active =>
        /\ files[dbFile] \in {s.pre, s.post}
        /\ files[dbFile] # s.pre => files[dbFile].ok
        /\ \A p \in Procs :
              (s.interrupted /\ up[p] /\ loadLog[p].err # "EACCES") =>
                  loadLog[p].urls \in
                      { load([n \in FileNames |-> f], EmptyMap, "nil").urls :
                          f \in {s.pre, s.post} }

\* The server was interrupted between the write of the temporary file and
\* the rename, and has started again.
C4_Witness ==
    LET s == saveLog IN
    /\ s.active /\ s.interrupted /\ up[Server]
    /\ s.pre # s.post
    /\ files[temp] = s.post
    /\ files[dbFile] = s.pre
    /\ loadLog[Server].err = "nil"

\* C5: once shorten(u) has returned a short URL, the redirect lookup of the
\* path "/" + code gives exactly u, found, in every later state of the
\* process.
C5_RoundTrip ==
    /\ \A e \in issued[Server] :
          Lookup(urls[Server], PathCode(<<"/">> \o e[1])) = [status |-> 302, dest |-> e[2]]
    /\ \A t \in Threads :
          Responding(t) =>
              \A e \in rlog[t].issuedAtCall : resp[t] = [status |-> 302, dest |-> e[2]]

\* A redirect called after a successful shorten has looked its code up.
C5_Witness ==
    \E t \in Threads :
        /\ Responding(t)
        /\ rlog[t].issuedAtCall # {}
        /\ resp[t].status = 302

\* C6: a redirect lookup finds a code that shorten inserted in this process
\* only if that shorten has committed (returned successfully) before the
\* lookup took the read lock, and a lookup called after a successful shorten
\* returned finds its target.
C6_ReaderWriterIsolation ==
    \A t \in Threads :
        Responding(t) =>
            /\ (resp[t].status = 302 /\ code[t] \notin DOMAIN loadLog[Proc(t)].urls) =>
                  <<code[t], resp[t].dest>> \in issued[Proc(t)]
            /\ \A e \in rlog[t].issuedAtCall :
                  resp[t] = [status |-> 302, dest |-> e[2]]

\* C7: a code that a redirect lookup finds is in the snapshot with the same
\* target.  Stated for the codes shorten inserted in this process, and up to
\* the coercion to valid UTF-8.
C7_ObservedIsPersisted ==
    \A t \in Threads :
        (Responding(t) /\ resp[t].status = 302
            /\ code[t] \notin DOMAIN loadLog[Proc(t)].urls) =>
                Recorded(code[t], resp[t].dest)

\* C8: once every call of the server and of the CLI run has returned, the
\* snapshot holds the entry of every call that returned successfully (up to
\* the coercion to valid UTF-8).
C8_SharedSnapshotKeepsAll ==
    (\A t \in Threads : pc[t] \in {"idle", "exited"}) =>
        \A p \in Procs : \A e \in issued[p] : Recorded(e[1], e[2])

\* C9: after init with a snapshot that load could not decode, the map is
\* empty and no code resolves.
C9_EmptyAfterLoadFailure ==
    loadLog[Server].err \in {"SyntaxError", "UnmarshalTypeError"} =>
        /\ loadLog[Server].urls = EmptyMap
        /\ \A c \in generateCode : Lookup(loadLog[Server].urls, c).status = 404

\* C10: with no snapshot file, load returns no error and the map is empty.
C10_LoadOnMissingFile ==
    \A p \in Procs :
        (loadLog[p].err # "none" /\ ~loadLog[p].from.exists) =>
            /\ loadLog[p].err = "nil"
            /\ loadLog[p].urls = EmptyMap

\* The server has started with no snapshot file.
C10_Witness ==
    /\ up[Server]
    /\ ~loadLog[Server].from.exists
    /\ loadLog[Server].err = "nil"
    /\ urls[Server] = EmptyMap

\* The goroutines of process p inside shorten's critical section: code
\* generation, the insert and save.
InsideShorten(p) ==
    {t \in Threads : Proc(t) = p /\ (pc[t] = "sGen" \/ InSave(t))}
\* The goroutines of process p reading urls inside redirectHandler.
InsideRedirect(p) ==
    {t \in Threads : Proc(t) = p /\ pc[t] \in {"rLookup", "rRUnlock"}}

\* C11: shorten holds mu exclusively from before the code is generated until
\* after save: in every state at most one shorten of a process is inside
\* generation, insert and save, and it is the writer holding mu; no redirect
\* reads urls meanwhile; and no two saves of the process overlap.
C11_LockingDiscipline ==
    \A p \in Procs :
        /\ Cardinality(InsideShorten(p)) <= 1
        /\ mu[p].w = InsideShorten(p)
        /\ mu[p].r = InsideRedirect(p)
        /\ InsideShorten(p) # {} => InsideRedirect(p) = {}
        /\ Cardinality({t \in Threads : Proc(t) = p /\ InSave(t)}) <= 1

\* A shorten is writing the temporary file, alone in holding mu, while a
\* redirect waits for the lock.
C11_Witness ==
    \E t1, t2 \in ServerThreads :
        /\ pc[t1] = "sEncode"
        /\ pc[t2] = "rRLock"
        /\ mu[Server] = [w |-> {t1}, r |-> {}]

\* Every code of the key space is in the map of process p.
KeySpaceFull(p) == \A c \in generateCode : exists(urls[p], c)
\* A goroutine that is in no call holds mu in no mode.
ReleasedOnReturn ==
    \A t \in Threads :
        pc[t] = "idle" => t \notin (mu[Proc(t)].w \cup mu[Proc(t)].r)

\* C12, as stated: every call that requests the lock eventually acquires
\* it, every call eventually returns, and a call that has returned holds
\* the lock no more.
C12_EveryCallReturns ==
    /\ []ReleasedOnReturn
    /\ \A t \in Threads :
          /\ (pc[t] \in {"sLock", "rRLock"}) ~> (pc[t] \in {"sGen", "rLookup"})
          /\ (pc[t] # "idle") ~> (pc[t] = "idle")

\* C12, amended: a call that has returned holds the lock no more, on the
\* error paths as on the successful one; and as long as some code of the key
\* space is free, every call that requests the lock eventually acquires it
\* and every call eventually returns.
C12_ReturnsUnlessExhausted ==
    /\ []ReleasedOnReturn
    /\ \A t \in Threads :
          /\ (pc[t] \in {"sLock", "rRLock"}) ~>
                (pc[t] \in {"sGen", "rLookup"} \/ KeySpaceFull(Proc(t)))
          /\ (pc[t] # "idle") ~> (pc[t] = "idle" \/ KeySpaceFull(Proc(t)))

\* A shorten whose save failed is about to return, by the deferred unlock,
\* while another shorten waits for the lock.
C12_Witness ==
    \E t1, t2 \in ServerThreads :
        /\ t1 # t2
        /\ pc[t1] = "sUnlock" /\ err[t1] # "nil"
        /\ pc[t2] = "sLock"

\* The goroutines of process p inside the file operations of save.
WritingSnapshot(p) ==
    {t \in Threads : Proc(t) = p /\ pc[t] \in {"sCreate", "sEncode", "sRename"}}

\* C13, as stated: a redirect lookup never has to wait for a snapshot write:
\* a lookup that requests the read lock while a save of its process is
\* running can take it.
C13_GetNeverWaitsForSave ==
    \A t \in Threads :
        (pc[t] = "rRLock" /\ WritingSnapshot(Proc(t)) # {}) => ENABLED RLock(t)

\* The steps of a redirect lookup leave the files and the map alone.
GetLeavesStoreAlone ==
    \A t \in Threads :
        (pc[t] \in {"rRLock", "rLookup", "rRUnlock"} /\ pc'[t] # pc[t] /\ up'[Proc(t)]) =>
            (files' = files /\ urls' = urls)

\* C13, amended: a redirect lookup does no persistence of its own: it takes
\* the read lock, looks up and releases, reading and writing no file and
\* leaving the map alone.  It waits for the lock only while a shorten of its
\* process is inside its critical section, the snapshot write included; once
\* it holds the lock no save is running.
C13_GetDoesNoPersistence ==
    /\ [][GetLeavesStoreAlone]_vars
    /\ [](\A t \in Threads :
            /\ pc[t] = "rRLock" => (ENABLED RLock(t) \/ InsideShorten(Proc(t)) # {})
            /\ pc[t] \in {"rLookup", "rRUnlock"} => WritingSnapshot(Proc(t)) = {})

\* A redirect waits for the lock while a shorten has written the temporary
\* file and not yet renamed it.
C13_Witness ==
    \E t1, t2 \in ServerThreads :
        /\ pc[t1] = "sRename"
        /\ files[temp] = Encode(urls[Server])
        /\ pc[t2] = "rRLock"
        /\ ~ENABLED RLock(t2)

\* C14: every code in the map of a process, generated by shorten or loaded
\* from the snapshot at startup, has length codeLength and holds only
\* letters of the alphabet.
C14_CodesWellFormed ==
    \A p \in Procs : \A c \in DOMAIN urls[p] :
        /\ Len(c) = codeLength
        /\ \A i \in 1..Len(c) : c[i] \in letters

\* A step of a running process keeps every entry of its map, with its
\* target, and adds at most one.
MappingGrows ==
    \A p \in Procs :
        (up[p] /\ up'[p]) =>
            /\ \A c \in DOMAIN urls[p] :
                  c \in DOMAIN urls'[p] /\ urls'[p][c] = urls[p][c]
            /\ Cardinality(DOMAIN urls'[p]) <= Cardinality(DOMAIN urls[p]) + 1

\* C15: the map of a process only grows and its entries never change: a
\* code present with a target is still present with that target after every
\* later step of the process; and a shorten call adds at most one entry:
\* from its insert to its return the map is the map it found plus its code.
C15_GrowOnlyImmutable ==
    /\ [][MappingGrows]_vars
    /\ [](\A t \in Threads :
            InSave(t) => DOMAIN urls[Proc(t)] = DOMAIN before[t] \cup {code[t]})

\* The server holds a loaded entry and the entries of two calls that have
\* returned.
C15_Witness ==
    /\ up[Server]
    /\ Cardinality(issued[Server]) = 2
    /\ loadLog[Server].urls # EmptyMap
    /\ \A t \in ServerThreads : pc[t] = "idle"
    /\ Cardinality(DOMAIN urls[Server]) = 3

\* The goroutine is inside shorten.
InShorten(t) == pc[t] \in {"sLock", "sGen"} \/ InSave(t)

\* C16: a request to shorten the empty target, from the HTTP handler, the
\* CLI or the bot, is rejected before it reaches the store: shorten is not
\* called with it, so no code is generated for it and neither the map nor
\* the snapshot changes.
C16_EmptyTargetRejected ==
    /\ \A t \in Threads : InShorten(t) => u[t] # ""
    /\ \A p \in Procs : \A c \in DOMAIN urls[p] :
          c \notin DOMAIN loadLog[p].urls => urls[p][c] # ""
    /\ files[dbFile].ok =>
          \A c \in DOMAIN files[dbFile].obj : files[dbFile].obj[c] # JString("")

\* c is a code as generateCode makes them.
WellFormed(c) == Len(c) = codeLength /\ \A i \in 1..Len(c) : c[i] \in letters

\* C17: a successful shorten(u) returns the base URL followed by one code,
\* and when it returns that code maps to u in the map.
C17_ShortURLFormat ==
    \A t \in Threads :
        Succeeding(t) =>
            LET short == shortenResult(t).short
                n == Len(baseURL)
                c == SubSeq(short, n + 1, Len(short))
            IN  /\ Len(short) = n + codeLength
                /\ SubSeq(short, 1, n) = baseURL
                /\ WellFormed(c)
                /\ c \in DOMAIN urls[Proc(t)]
                /\ urls[Proc(t)][c] = u[t]

\* A shorten of the server is about to return a short URL for a target
\* that another code of the map already carries.
C17_Witness ==
    \E t \in ServerThreads :
        /\ Succeeding(t)
        /\ u[t] = "http://a"
        /\ \E c \in DOMAIN before[t] : before[t][c] = u[t]

\* Code c was never issued in process p: it was not in the snapshot the
\* process loaded and no shorten call of the process has returned it.
NeverIssued(p, c) ==
    /\ c \notin DOMAIN loadLog[p].urls
    /\ \A e \in issued[p] : e[1] # c

\* C18: redirectHandler looks up the request path without its leading "/":
\* for a code in the map it answers 302 to the stored target, and for a code
\* that was never issued it answers 404.
C18_ResolveOutcome ==
    \A t \in Threads :
        Responding(t) =>
            /\ code[t] \in DOMAIN urls[Proc(t)] =>
                  resp[t] = [status |-> 302, dest |-> urls[Proc(t)][code[t]]]
            /\ NeverIssued(Proc(t), code[t]) => resp[t].status = 404

\* The message is a command of someone else with something other than
\* blanks after the prefix "!shorten ".
CommandWithURL(m) ==
    /\ ~m.fromSelf
    /\ Len(m.Content) >= 3
    /\ m.Content[1] = "!shorten"
    /\ m.Content[2] = " "
    /\ \E i \in 3..Len(m.Content) : m.Content[i] # " "

\* C19: for every message, messageCreate calls shorten at most once, and
\* only if the message is not the bot's own, starts with the prefix and has
\* a URL left after trimming; shorten gets that trimmed URL; when shorten
\* fails the handler sends the failure message and returns, the bot still
\* running; when it succeeds the handler sends the short URL it returned.
C19_BotHandler ==
    bot.handled =>
        /\ bot.calls <= 1
        /\ bot.calls = 1 <=> CommandWithURL(bot.m)
        /\ InShorten(BotThread) => bot.calls = 1 /\ u[BotThread] = "http://a"
        /\ pc[BotThread] = "idle" =>
              /\ up[Bot]
              /\ ~CommandWithURL(bot.m) => bot.ret = NoRet /\ bot.sent \in {<< >>, <<Usage>>}
              /\ (CommandWithURL(bot.m) /\ bot.ret.err # "nil") =>
                    bot.sent = <<Failed>>
              /\ (CommandWithURL(bot.m) /\ bot.ret.err = "nil") =>
                    /\ bot.sent = <<ShortMsg(bot.ret.short)>>
                    /\ <<SubSeq(bot.ret.short, Len(baseURL) + 1, Len(bot.ret.short)),
                         "http://a">> \in issued[Bot]

\* The bot has handled a command and sent the short URL, then a second
\* command whose shorten failed, and has sent the failure message.
C19_Witness ==
    /\ bot.handled
    /\ pc[BotThread] = "idle"
    /\ issued[Bot] # {}
    /\ bot.calls = 1
    /\ bot.ret.err # "nil"
    /\ bot.sent = <<Failed>>

\* No two tasks of the list share an ID.
UniqueIDs(list) ==
    \A i, j \in 1..Len(list) : i # j => list[i].ID # list[j].ID

\* A step in which addTask has added a task: its ID is greater than every
\* ID of the list it loaded, 1 for the empty list, and the new list is the
\* old one with the task of that ID at its end.
AddGivesFreshID ==
    (taskOut'.id > 0 /\ taskOut'.exit = 0 /\ taskFiles' # taskFiles) =>
        LET old == loadTasks(taskFiles).tasks
            new == taskFiles'[dataFile].tasks
        IN  /\ \A i \in 1..Len(old) : taskOut'.id > old[i].ID
            /\ old = << >> => taskOut'.id = 1
            /\ Len(new) = Len(old) + 1
            /\ SubSeq(new, 1, Len(old)) = old
            /\ new[Len(new)].ID = taskOut'.id

\* C20: after any sequence of addTask, editTask, completeTask, startTask,
\* deleteTask and clearTasks no two tasks of tasks.json share an ID, and the
\* ID addTask gives is greater than every ID in the list at that moment (1
\* for the empty list).
C20_UniqueTaskIDs ==
    /\ [](taskFiles[dataFile].ok => UniqueIDs(taskFiles[dataFile].tasks))
    /\ [][AddGivesFreshID]_vars

\* Task 1 was deleted and a task added after it: the list holds the IDs 2
\* and 3, the last one just given.
C20_Witness ==
    /\ taskFiles[dataFile].ok
    /\ Len(taskFiles[dataFile].tasks) = 2
    /\ taskFiles[dataFile].tasks[1].ID = 2
    /\ taskFiles[dataFile].tasks[2].ID = 3
    /\ taskOut = Out("add", 3, 0)


\* The effect of one run of edit with the ID id and the four flag values,
\* from the files tf to the outcome r: with a list that does not load, or
\* without a task of that ID, no file is written; with one, either the save
\* fails and tasks.json is as before, or tasks.json holds the list with
\* every other task as it was and, in the task of that ID, the fields of
\* the given flags set and all else kept.
EditEffect(tf, r, id, newTitle, newCreated, newDue, newPriority) ==
    LET l == loadTasks(tf)
        old == l.tasks
    IN  IF l.err # "nil" \/ ~\E i \in 1..Len(old) : old[i].ID = id
        THEN r.files = tf
        ELSE \/ /\ r.out.exit = 1
                /\ r.files[dataFile] = tf[dataFile]
             \/ /\ r.out.exit = 0
                /\ r.files[dataFile].ok
                /\ LET new == r.files[dataFile].tasks IN
                   /\ Len(new) = Len(old)
                   /\ \A j \in 1..Len(old) :
                        IF old[j].ID # id THEN new[j] = old[j]
                        ELSE /\ new[j].ID = old[j].ID
                             /\ new[j].Done = old[j].Done
                             /\ new[j].InProgress = old[j].InProgress
                             /\ new[j].Title =
                                  IF newTitle # "" THEN newTitle ELSE old[j].Title
                             /\ new[j].Created =
                                  IF newCreated # "" THEN newCreated ELSE old[j].Created
                             /\ new[j].Due =
                                  IF newDue # "" THEN newDue ELSE old[j].Due
                             /\ new[j].Priority =
                                  IF newPriority # "" THEN newPriority ELSE old[j].Priority

StuckPut(t) == pc[t] = "sGen" /\ KeySpaceFull(Proc(t))

\* A step from a state with a stuck shorten: the shorten is still in its
\* loop and holds mu exclusively, the map and the files are as they were,
\* and every goroutine of the process that waits for mu still waits.
StuckForEver ==
    \A t \in Threads :
        StuckPut(t) =>
            /\ pc'[t] = "sGen"
            /\ mu'[Proc(t)].w = {t}
            /\ urls'[Proc(t)] = urls[Proc(t)]
            /\ files' = files
            /\ \A t2 \in Threads :
                 (Proc(t2) = Proc(t) /\ pc[t2] \in {"sLock", "rRLock"}) =>
                     pc'[t2] = pc[t2]

\* C22: a shorten in its generation loop returns whenever some code of the
\* key space is not in the map (the generator eventually drawing it); when
\* every code is in the map it never returns, never changes the map or the
\* snapshot, and keeps the exclusive lock, so that every later Get and Put
\* of the process waits for ever.
C22_ExhaustionLimit ==
    /\ \A t \in Threads :
          (pc[t] = "sGen" /\ ~KeySpaceFull(Proc(t))) ~> (pc[t] = "idle")
    /\ [][StuckForEver]_vars

\* The key space of the server is full, one goroutine is in shorten's loop
\* holding mu, and a redirect that arrived later waits for the lock.
C22_Witness ==
    \E t1, t2 \in ServerThreads :
        /\ StuckPut(t1)
        /\ mu[Server] = [w |-> {t1}, r |-> {}]
        /\ pc[t2] = "rRLock"


\* A step of save in goroutine t other than a rename that succeeds: a step
\* that fails, or the creation or the writing of the temporary file.
SaveStepShortOfRename(t) ==
    /\ pc[t] \in {"sCreate", "sEncode", "sRename"}
    /\ pc'[t] # pc[t]
    /\ ~(pc'[t] = "sUnlock" /\ err'[t] = "nil")

\* C23: a failed save leaves the snapshot file unchanged: when save is
\* about to return an error, from the creation of the temporary file, from
\* the encoding or from the rename, urls.json holds what it held when save
\* was called; and no step of save but the rename that succeeds changes a
\* file other than the temporary one.
C23_FailedSaveKeepsSnapshot ==
    /\ [](\A t \in Threads :
            Failing(t) => /\ saveLog.owner = Proc(t)
                          /\ files[dbFile] = saveLog.pre)
    /\ [][\A t \in Threads :
            SaveStepShortOfRename(t) =>
                \A n \in FileNames \ {temp} : files'[n] = files[n]]_vars

\* The encoding has failed and left the temporary file cut short, while
\* urls.json still holds the snapshot of the one code it held before.
C23_Witness ==
    \E t \in ServerThreads :
        /\ Failing(t)
        /\ err[t] = "ENOSPC"
        /\ files[temp] = Truncated
        /\ files[dbFile] = Encode(CodeA :> "http://a")
        /\ saveLog.pre = files[dbFile]


\* The Done and InProgress flags of the tasks of a list, in order.
Flags(list) == [i \in 1..Len(list) |-> <<list[i].ID, list[i].Done, list[i].InProgress>>]

\* A step of any command: a task that is in tasks.json before and after
\* it, and was done before, is done after.
DoneKept ==
    LET old == taskFiles[dataFile].tasks
        new == taskFiles'[dataFile].tasks
    IN  \A i \in 1..Len(old), j \in 1..Len(new) :
            (old[i].ID = new[j].ID /\ old[i].Done) => new[j].Done

\* A run of complete, start or delete with an ID that is not in the list,
\* from the files tf to the outcome r, writes no file.
NotFoundEffect(tf, r, id) ==
    LET l == loadTasks(tf) IN
    (l.err # "nil" \/ ~\E i \in 1..Len(l.tasks) : l.tasks[i].ID = id) =>
        r.files = tf

\* A run of start on a task that is done or in progress leaves the flags
\* of every task as they were.
StartEffect(tf, r, id) ==
    LET l == loadTasks(tf) IN
    \A i \in 1..Len(l.tasks) :
        (l.err = "nil" /\ l.tasks[i].ID = id
            /\ (l.tasks[i].Done \/ l.tasks[i].InProgress)) =>
                /\ r.files[dataFile].ok
                /\ Flags(r.files[dataFile].tasks) = Flags(l.tasks)

\* A run of complete on a task of the list: when it has saved, the task is
\* done and its InProgress flag, like every other task, is as it was; when
\* the save failed tasks.json is as it was.
CompleteEffect(tf, r, id) ==
    LET l == loadTasks(tf) IN
    \A i \in 1..Len(l.tasks) :
        (l.err = "nil" /\ l.tasks[i].ID = id) =>
            IF r.out.exit = 0
            THEN /\ r.files[dataFile].ok
                 /\ r.files[dataFile].tasks = [l.tasks EXCEPT ![i].Done = TRUE]
                 /\ r.files[dataFile].tasks[i].InProgress = l.tasks[i].InProgress
            ELSE r.files[dataFile] = tf[dataFile]

====
